---------------------------- MODULE Spec2Model ----------------------------
(***************************************************************************)
(* A model of the repository client helper (src/gh_utils.py), of the      *)
(* experiment driver (src/experiment.py) and of the hello-world push      *)
(* (src/folder_sync.py).  The hosting platform is the environment: a      *)
(* repository is a store of commits, branch and tag refs and open pull    *)
(* requests, and every remote call is one atomic step on it.              *)
(***************************************************************************)
EXTENDS Integers, Sequences, FiniteSets, TLC

VARIABLES
    commits,    \* the remote commit store: commits[sha] = [parent, tree]
    branches,   \* branch name -> commit sha (0: no such branch)
    tags,       \* tag name -> commit sha (0: no such tag)
    pulls,      \* the open pull requests, in creation order: [head, base]
    blobs,      \* the blobs uploaded by make_change
    last,       \* the last helper call: its arguments and what came of it
    writers,    \* each push_changes caller: its position and its locals
    driver      \* the experiment script: its run, its position, its outcome

vars == <<commits, branches, tags, pulls, blobs, last, writers, driver>>

----------------------------------------------------------------------------
(* Bounds of the model.                                                    *)

MaxCommits == 4
MaxList == 2
MaxChanges == 2

----------------------------------------------------------------------------
(* Text.  A Python str is a sequence of one-character strings, so that    *)
(* `pattern in message` is a real substring test.                         *)

ALREADY_EXIST == <<"a","l","r","e","a","d","y"," ","e","x","i","s","t">>

SHA_NOT_SUPPLIED ==
    <<"\"","s","h","a","\""," ","w","a","s","n","'","t"," ",
      "s","u","p","p","l","i","e","d">>

MsgReferenceExists ==
    <<"R","e","f","e","r","e","n","c","e"," ">> \o ALREADY_EXIST \o <<"s">>

MsgRefExists == <<"r","e","f"," ">> \o ALREADY_EXIST \o <<"s">>

MsgShaMissing ==
    <<"I","n","v","a","l","i","d"," ">> \o SHA_NOT_SUPPLIED \o <<".">>

MsgPullExists ==
    <<"A"," ","p","u","l","l"," ","r","e","q","u","e","s","t"," ">>
        \o ALREADY_EXIST \o <<"s">>

MsgNotFound == <<"N","o","t"," ","F","o","u","n","d">>

MsgAlready == <<"a","l","r","e","a","d","y">>

Messages ==
    {MsgReferenceExists, MsgRefExists, MsgShaMissing, MsgPullExists,
     MsgNotFound, MsgAlready, <<>>}

Patterns == {ALREADY_EXIST, SHA_NOT_SUPPLIED}

\* Python's `pattern in message` on two strings.
Contains(pattern, message) ==
    \E i \in 0..(Len(message) - Len(pattern)) :
        SubSeq(message, i + 1, i + Len(pattern)) = pattern

----------------------------------------------------------------------------
(* Error payloads (GhError): a str, a dict (with or without a "message"   *)
(* key), a list of such values, or a value of another type.               *)

Str(m) == [kind |-> "str", has_message |-> FALSE, message |-> m, items |-> <<>>]

Dict(m) == [kind |-> "dict", has_message |-> TRUE, message |-> m, items |-> <<>>]

DictNoMessage ==
    [kind |-> "dict", has_message |-> FALSE, message |-> <<>>, items |-> <<>>]

Other == [kind |-> "other", has_message |-> FALSE, message |-> <<>>, items |-> <<>>]

List(xs) == [kind |-> "list", has_message |-> FALSE, message |-> <<>>, items |-> xs]

Scalars ==
    {Str(m) : m \in Messages} \cup {Dict(m) : m \in Messages}
        \cup {DictNoMessage, Other}

\* What a list may hold: a scalar, or a list again (the empty one stands for it).
Atoms == Scalars \cup {List(<<>>)}

Payloads ==
    Scalars \cup {List(xs) : xs \in UNION {[1..n -> Atoms] : n \in 0..MaxList}}

\* A call either returns a value or raises.  "reraise" is the bare `raise`:
\* it raises again the exception being handled, the remote error itself.
Return(v) == [raised |-> "none", value |-> v]

Raise(e) == [raised |-> e, value |-> <<>>]

_find_error_from_response(error) ==
    IF error.kind = "list"
    THEN IF Len(error.items) > 1 THEN Raise("reraise")
         ELSE IF Len(error.items) = 0 THEN Raise("IndexError")
         ELSE Return(error.items[1])
    ELSE Return(error)

_find_message_from_error(err) ==
    IF err.kind = "dict"
    THEN IF err.has_message THEN Return(err.message) ELSE Raise("KeyError")
    ELSE IF err.kind = "str" THEN Return(err.message)
    ELSE Raise("reraise")

PatternCheck(expected_pattern, message) ==
    IF ~Contains(expected_pattern, message) THEN Raise("reraise") ELSE Return(<<>>)

\* A faulty variant of _check_already_exists: a list is classified by its first
\* entry whatever its length.
CheckAlreadyExistsFirstOfMany(error, expected_pattern) ==
    LET err == IF error.kind = "list"
               THEN IF Len(error.items) = 0 THEN Raise("IndexError")
                    ELSE Return(error.items[1])
               ELSE Return(error)
    IN  IF err.raised # "none" THEN err
        ELSE LET message == _find_message_from_error(err.value)
             IN  IF message.raised # "none" THEN message
                 ELSE PatternCheck(expected_pattern, message.value)

_check_already_exists(error, expected_pattern) ==
    LET err == _find_error_from_response(error)
    IN  IF err.raised # "none" THEN err
        ELSE LET message == _find_message_from_error(err.value)
             IN  IF message.raised # "none" THEN message
                 ELSE PatternCheck(expected_pattern, message.value)

\* experiment.py's classifier: a list entry is subscripted with 'message'
\* whatever it is.
check_already_exists(error, expected_pattern) ==
    LET message ==
            IF error.kind = "list"
            THEN IF Len(error.items) > 1 THEN Raise("reraise")
                 ELSE IF Len(error.items) = 0 THEN Raise("IndexError")
                 ELSE LET e == error.items[1]
                      IN  IF e.kind = "dict"
                          THEN IF e.has_message THEN Return(e.message)
                               ELSE Raise("KeyError")
                          ELSE Raise("TypeError")
            ELSE IF error.kind = "dict"
            THEN IF error.has_message THEN Return(error.message)
                 ELSE Raise("KeyError")
            ELSE IF error.kind = "str" THEN Return(error.message)
            ELSE Raise("reraise")
    IN  IF message.raised # "none" THEN message
        ELSE PatternCheck(expected_pattern, message.value)

----------------------------------------------------------------------------
(* The repository.  A path is its sequence of segments ("logos/hello.txt" *)
(* is <<"logos", "hello.txt">>); a trailing "" segment is a trailing '/'. *)
(* A tree maps every path to the sha of its blob, or to NoBlob.  A blob's *)
(* sha stands for its content.                                            *)

Paths ==
    {<<"merchants.json">>,
     <<"logos", "hello.txt">>,
     <<"logos", "world.txt">>,
     <<"logos", "uk", "a.png">>,
     <<"logos", "uk", "b.png">>,
     <<"data", "v1.json">>}

\* Every segment name, in the order the platform lists a directory (by name).
NameOrder ==
    <<"a.png", "b.png", "data", "hello.txt", "logos", "merchants.json",
      "uk", "v1.json", "world.txt">>

Contents == {"b1", "b2"}

NoBlob == "none"

Trees == [Paths -> Contents \cup {NoBlob}]

EmptyTree == [p \in Paths |-> NoBlob]

BranchNames == {"main", "update"}

TagNames == {"update", "v1"}

DefaultBranch == "main"

IsPrefix(p, q) == Len(p) <= Len(q) /\ SubSeq(q, 1, Len(p)) = p

\* str.rstrip('/')
RECURSIVE RStripSlash(_)
RStripSlash(path) ==
    IF Len(path) > 0 /\ path[Len(path)] = ""
    THEN RStripSlash(SubSeq(path, 1, Len(path) - 1))
    ELSE path

TreeOf(cs, sha) == cs[sha].tree

\* The tree at the head of a branch.
HeadTree(cs, bs, branch) == TreeOf(cs, bs[branch])

----------------------------------------------------------------------------
(* Reading: get_contents, _ensure_contents, iter_content_files.           *)

FileEntry(tree, p) == [type |-> "file", path |-> p, sha |-> tree[p]]

DirEntry(p) == [type |-> "dir", path |-> p, sha |-> NoBlob]

IsFile(tree, p) == p \in Paths /\ tree[p] # NoBlob

\* The files of the tree below directory d.
Below(tree, d) == {p \in Paths : tree[p] # NoBlob /\ IsPrefix(d, p) /\ p # d}

\* The listing of directory d: its entries, by name.
Listing(tree, d) ==
    LET names == {p[Len(d) + 1] : p \in Below(tree, d)}
        listed == SelectSeq(NameOrder, LAMBDA n : n \in names)
    IN  [i \in 1..Len(listed) |->
            IF IsFile(tree, Append(d, listed[i]))
            THEN FileEntry(tree, Append(d, listed[i]))
            ELSE DirEntry(Append(d, listed[i]))]

None == [shape |-> "none", entries |-> <<>>]

Single(e) == [shape |-> "single", entries |-> <<e>>]

Many(es) == [shape |-> "many", entries |-> es]

\* repo.get_contents(path, ref=ref): a file, a directory's listing, or the
\* TypeError the client library raises for a path that does not exist.
RemoteGetContents(tree, path) ==
    IF IsFile(tree, path) THEN Return(Single(FileEntry(tree, path)))
    ELSE IF Below(tree, path) # {} THEN Return(Many(Listing(tree, path)))
    ELSE Raise("TypeError")

get_contents(tree, path) ==
    LET r == RemoteGetContents(tree, RStripSlash(path))
    IN  IF r.raised = "TypeError" THEN Return(None) ELSE r

_ensure_contents(items) ==
    IF items.shape = "many" THEN items.entries
    ELSE IF items.shape = "none" THEN <<>>
    ELSE <<items.entries[1]>>

RECURSIVE iter_content_files(_, _)
RECURSIVE IterOver(_, _, _)

\* A faulty variant of IterStep: a directory is yielded like a file, not traversed.
IterStepNoRecursion(tree, content) == <<content>>

\* What one entry of a listing contributes to the sequence.
IterStep(tree, content) ==
    IF content.type = "dir"
    THEN iter_content_files(tree, content.path)
    ELSE <<content>>

IterOver(tree, contents, i) ==
    IF i > Len(contents) THEN <<>>
    ELSE IterStep(tree, contents[i]) \o IterOver(tree, contents, i + 1)

iter_content_files(tree, path) ==
    IterOver(tree, _ensure_contents(get_contents(tree, path).value), 1)

\* The paths a caller may ask for: every file and directory there can be,
\* the root, missing paths, and paths with a trailing '/'.
RootPaths ==
    UNION {{SubSeq(p, 1, n) : n \in 0..Len(p)} : p \in Paths}
        \cup {<<"absent">>, <<"logos", "absent">>, <<"logos", "">>,
              <<"logos", "uk", "", "">>, <<"">>}

----------------------------------------------------------------------------
(* The remote's answers to a create call.  A rejection carries the status *)
(* and the data of the GithubException; `errors` is data['errors'] where  *)
(* the body has that key.                                                  *)

EXPECTED_STATUS == 422

Accepted ==
    [rejected |-> FALSE, status |-> 201, data |-> Other,
     has_errors |-> FALSE, errors |-> Other]

Rejected(status, data) ==
    [rejected |-> TRUE, status |-> status, data |-> data,
     has_errors |-> FALSE, errors |-> Other]

RejectedWithErrors(status, errors) ==
    [rejected |-> TRUE, status |-> status, data |-> Dict(<<>>),
     has_errors |-> TRUE, errors |-> errors]

\* The payloads of the rejections the remote may answer with for a reason
\* of its own: one of every shape the classifier tells apart.
InjectedPayloads ==
    {Str(MsgNotFound), Dict(MsgNotFound), DictNoMessage, Other, List(<<>>),
     List(<<Dict(MsgReferenceExists), Dict(MsgReferenceExists)>>),
     List(<<Dict(MsgShaMissing), Dict(MsgShaMissing)>>),
     List(<<Dict(MsgPullExists), Dict(MsgPullExists)>>),
     Dict(MsgReferenceExists), Dict(MsgShaMissing), List(<<Dict(MsgPullExists)>>)}

Statuses == {EXPECTED_STATUS, 404, 500}

Injections ==
    {Rejected(s, d) : s \in Statuses, d \in InjectedPayloads}

PullInjections ==
    {RejectedWithErrors(s, d) : s \in Statuses, d \in InjectedPayloads}
        \cup {Rejected(s, Dict(MsgNotFound)) : s \in Statuses}

_check_status(status, expected_status) ==
    IF status # expected_status THEN Raise("reraise") ELSE Return(<<>>)

\* _one: the first item of a sequence, the object itself otherwise.
_one(obj) == obj.entries[1]

BranchSha(bs, name) == IF name \in DOMAIN bs THEN bs[name] ELSE 0

\* What a helper call leaves behind and hands back.
Outcome(cs, bs, ps, rej, raised, route, fallback, ret) ==
    [commits |-> cs, branches |-> bs, pulls |-> ps, rej |-> rej,
     raised |-> raised, route |-> route, fallback |-> fallback, ret |-> ret]

\* A commit on top of `parent` whose tree is the parent's with path := sha.
WriteCommit(cs, parent, path, sha) ==
    Append(cs, [parent |-> parent,
                tree |-> [TreeOf(cs, parent) EXCEPT ![path] = sha]])

\* repo.create_file(path, message, content): no branch is passed, so the
\* remote writes to the repository's default branch.  A path that already
\* has content there is rejected: "sha" wasn't supplied.
RemoteCreateFile(cs, bs, path, content) ==
    IF HeadTree(cs, bs, DefaultBranch)[path] # NoBlob
    THEN [answer |-> Rejected(EXPECTED_STATUS, Dict(MsgShaMissing)),
          commits |-> cs, branches |-> bs]
    ELSE [answer |-> Accepted,
          commits |-> WriteCommit(cs, bs[DefaultBranch], path, content),
          branches |-> [bs EXCEPT ![DefaultBranch] = Len(cs) + 1]]

\* repo.update_file(path, sha=sha, branch=branch, message, content)
RemoteUpdateFile(cs, bs, path, branch, content) ==
    [commits |-> WriteCommit(cs, bs[branch], path, content),
     branches |-> [bs EXCEPT ![branch] = Len(cs) + 1]]

\* The except branch of update_file after the classifier let the error pass:
\* fetch the entry at the branch and update it there.
UpdateFileFallback(cs, bs, ps, rej, file_path, branch, content) ==
    IF BranchSha(bs, branch) = 0
    THEN Outcome(cs, bs, ps, rej, "UnknownObject", "update", TRUE, 0)
    ELSE LET found == RemoteGetContents(HeadTree(cs, bs, branch), file_path)
         IN  IF found.raised # "none"
             THEN Outcome(cs, bs, ps, rej, found.raised, "update", TRUE, 0)
             ELSE LET to_update == _one(found.value)
                      w == RemoteUpdateFile(cs, bs, to_update.path, branch, content)
                  IN  Outcome(w.commits, w.branches, ps, rej, "none", "update",
                              TRUE, Len(w.commits))

\* update_file(repo, file_path, branch, message=..., content=...).  `inj` is
\* the remote's answer when it rejects the create for a reason of its own.
update_file(cs, bs, ps, file_path, branch, content, inj) ==
    LET created == IF inj.rejected
                   THEN [answer |-> inj, commits |-> cs, branches |-> bs]
                   ELSE RemoteCreateFile(cs, bs, file_path, content)
        exc == created.answer
    IN  IF ~exc.rejected
        THEN Outcome(created.commits, created.branches, ps, exc, "none",
                     "create", FALSE, Len(created.commits))
        ELSE LET st == _check_status(exc.status, EXPECTED_STATUS)
                 ae == _check_already_exists(exc.data, SHA_NOT_SUPPLIED)
             IN  IF st.raised # "none"
                 THEN Outcome(cs, bs, ps, exc, st.raised, "create", FALSE, 0)
                 ELSE IF ae.raised # "none"
                 THEN Outcome(cs, bs, ps, exc, ae.raised, "create", FALSE, 0)
                 ELSE UpdateFileFallback(cs, bs, ps, exc, file_path, branch, content)

\* repo.create_git_ref(ref='refs/heads/' + name, sha=sha): a ref that exists
\* is rejected, "Reference already exists", and is left where it is.
RemoteCreateGitRef(bs, name, sha) ==
    IF bs[name] # 0
    THEN [answer |-> Rejected(EXPECTED_STATUS, Dict(MsgReferenceExists)),
          branches |-> bs]
    ELSE [answer |-> Accepted, branches |-> [bs EXCEPT ![name] = sha]]

GitRef(name, sha) == [ref |-> name, sha |-> sha]

\* A faulty variant of CreateBranchFallback: the existing ref is moved to the
\* source's head before it is returned.
CreateBranchFallbackMoves(cs, bs, ps, exc, branch_name, sha) ==
    IF bs[branch_name] = 0
    THEN Outcome(cs, bs, ps, exc, "UnknownObject", "existing", TRUE,
                 GitRef(branch_name, 0))
    ELSE Outcome(cs, [bs EXCEPT ![branch_name] = sha], ps, exc, "none",
                 "existing", TRUE, GitRef(branch_name, sha))

\* The except branch of create_branch after the classifier let the error
\* pass: repo.get_git_ref('heads/' + branch_name).  `sha` is the source's.
CreateBranchFallback(cs, bs, ps, exc, branch_name, sha) ==
    IF bs[branch_name] = 0
    THEN Outcome(cs, bs, ps, exc, "UnknownObject", "existing", TRUE,
                 GitRef(branch_name, 0))
    ELSE Outcome(cs, bs, ps, exc, "none", "existing", TRUE,
                 GitRef(branch_name, bs[branch_name]))

\* create_branch(repo, branch_name, source_branch)
create_branch(cs, bs, ps, branch_name, source_branch, inj) ==
    IF BranchSha(bs, source_branch) = 0
    \* repo.get_branch of a branch that does not exist
    THEN Outcome(cs, bs, ps, Accepted, "UnknownObject", "source", FALSE,
                 GitRef(branch_name, 0))
    ELSE LET created == IF inj.rejected
                        THEN [answer |-> inj, branches |-> bs]
                        ELSE RemoteCreateGitRef(bs, branch_name, bs[source_branch])
             exc == created.answer
         IN  IF ~exc.rejected
             THEN Outcome(cs, created.branches, ps, exc, "none", "created", FALSE,
                          GitRef(branch_name, created.branches[branch_name]))
             ELSE LET st == _check_status(exc.status, EXPECTED_STATUS)
                      ae == _check_already_exists(exc.data, ALREADY_EXIST)
                  IN  IF st.raised # "none"
                      THEN Outcome(cs, bs, ps, exc, st.raised, "created", FALSE,
                                   GitRef(branch_name, 0))
                      ELSE IF ae.raised # "none"
                      THEN Outcome(cs, bs, ps, exc, ae.raised, "created", FALSE,
                                   GitRef(branch_name, 0))
                      ELSE CreateBranchFallback(cs, created.branches, ps, exc,
                                                branch_name, bs[source_branch])

\* repo.create_pull(title, head, base, body): the remote keeps one open pull
\* request per head and base, and rejects a second one.
RemoteCreatePull(ps, head, base) ==
    IF \E i \in 1..Len(ps) : ps[i].head = head /\ ps[i].base = base
    THEN [answer |-> RejectedWithErrors(EXPECTED_STATUS, List(<<Dict(MsgPullExists)>>)),
          pulls |-> ps]
    ELSE [answer |-> Accepted,
          pulls |-> Append(ps, [number |-> Len(ps) + 1, head |-> head, base |-> base])]

\* A faulty variant of get_pulls: every open pull request, whatever its pair.
GetPullsUnfiltered(ps, base, head) == ps

\* repo.get_pulls(base=base, head=head): the open pull requests of the pair.
get_pulls(ps, base, head) ==
    SelectSeq(ps, LAMBDA pr : pr.base = base /\ pr.head = head)

NoPull == [number |-> 0, head |-> "", base |-> ""]

\* create_pull_request(repo, head, base, title, body)
create_pull_request(cs, bs, ps, head, base, inj) ==
    LET created == IF inj.rejected THEN [answer |-> inj, pulls |-> ps]
                   ELSE RemoteCreatePull(ps, head, base)
        exc == created.answer
    IN  IF ~exc.rejected
        THEN Outcome(cs, bs, created.pulls, exc, "none", "created", FALSE,
                     created.pulls[Len(created.pulls)])
        ELSE LET st == _check_status(exc.status, EXPECTED_STATUS)
             IN  IF st.raised # "none"
                 THEN Outcome(cs, bs, ps, exc, st.raised, "created", FALSE, NoPull)
                 ELSE IF ~exc.has_errors
                 \* exc.data['errors'] of a body without that key
                 THEN Outcome(cs, bs, ps, exc, "KeyError", "created", FALSE, NoPull)
                 ELSE LET ae == _check_already_exists(exc.errors, ALREADY_EXIST)
                          found == get_pulls(ps, base, head)
                      IN  IF ae.raised # "none"
                          THEN Outcome(cs, bs, ps, exc, ae.raised, "created",
                                       FALSE, NoPull)
                          ELSE IF Len(found) = 0
                          \* next(iter(...)) of no pull request
                          THEN Outcome(cs, bs, ps, exc, "StopIteration",
                                       "existing", TRUE, NoPull)
                          ELSE Outcome(cs, bs, ps, exc, "none", "existing", TRUE,
                                       found[1])

\* The order repo.get_branches() and repo.get_tags() list names in.
RefOrder == <<"main", "update", "v1">>

\* The refs of a name -> sha map, as the objects the remote lists.
RefList(refs) ==
    LET names == SelectSeq(RefOrder, LAMBDA n : n \in DOMAIN refs /\ refs[n] # 0)
    IN  [i \in 1..Len(names) |-> [name |-> names[i], sha |-> refs[names[i]]]]

NoMatch == [name |-> "", sha |-> 0]

\* find_match: next((x for x in tags if x.name == tag), None)
find_match(refs, tag) ==
    LET hits == {i \in 1..Len(refs) : refs[i].name = tag}
    IN  IF hits = {} THEN NoMatch
        ELSE refs[CHOOSE i \in hits : \A j \in hits : i <= j]

\* A faulty variant of get_tag_sha: tags are searched first.
GetTagShaTagsFirst(bs, ts, tag) ==
    LET m1 == find_match(RefList(ts), tag)
        m2 == IF m1 # NoMatch THEN m1 ELSE find_match(RefList(bs), tag)
    IN  IF m2 = NoMatch THEN Raise("ValueError") ELSE Return(m2.sha)

\* get_tag_sha(repo, tag)
get_tag_sha(bs, ts, tag) ==
    LET m1 == find_match(RefList(bs), tag)
        m2 == IF m1 # NoMatch THEN m1 ELSE find_match(RefList(ts), tag)
    IN  IF m2 = NoMatch THEN Raise("ValueError") ELSE Return(m2.sha)

----------------------------------------------------------------------------
(* experiment.py: the script's own copies of the three helpers, and the   *)
(* names its scenario uses.                                                *)

TARGET_FILE == <<"merchants.json">>

BASE_BRANCH == "main"

\* f'update/{UPDATED_AT[:-9]}': one name per day.
FEATURE_BRANCH == "update"

check_status(status) ==
    IF status # 422 THEN Raise("reraise") ELSE Return(<<>>)

experiment_update_file(cs, bs, ps, file_path, branch, content) ==
    LET created == RemoteCreateFile(cs, bs, file_path, content)
        exc == created.answer
    IN  IF ~exc.rejected
        THEN Outcome(created.commits, created.branches, ps, exc, "none",
                     "create", FALSE, Len(created.commits))
        ELSE LET st == check_status(exc.status)
                 ae == check_already_exists(exc.data, SHA_NOT_SUPPLIED)
             IN  IF st.raised # "none"
                 THEN Outcome(cs, bs, ps, exc, st.raised, "create", FALSE, 0)
                 ELSE IF ae.raised # "none"
                 THEN Outcome(cs, bs, ps, exc, ae.raised, "create", FALSE, 0)
                 ELSE UpdateFileFallback(cs, bs, ps, exc, file_path, branch, content)

experiment_create_branch(cs, bs, ps, branch_name, source_branch) ==
    IF BranchSha(bs, source_branch) = 0
    THEN Outcome(cs, bs, ps, Accepted, "UnknownObject", "source", FALSE, 0)
    ELSE LET created == RemoteCreateGitRef(bs, branch_name, bs[source_branch])
             exc == created.answer
         IN  IF ~exc.rejected
             THEN Outcome(cs, created.branches, ps, exc, "none", "created", FALSE, 0)
             ELSE LET st == check_status(exc.status)
                      ae == check_already_exists(exc.data, ALREADY_EXIST)
                  IN  IF st.raised # "none"
                      THEN Outcome(cs, bs, ps, exc, st.raised, "created", FALSE, 0)
                      ELSE IF ae.raised # "none"
                      THEN Outcome(cs, bs, ps, exc, ae.raised, "created", FALSE, 0)
                      ELSE Outcome(cs, bs, ps, exc, "none", "existing", FALSE, 0)

experiment_create_pull_request(cs, bs, ps, head, base) ==
    LET created == RemoteCreatePull(ps, head, base)
        exc == created.answer
    IN  IF ~exc.rejected
        THEN Outcome(cs, bs, created.pulls, exc, "none", "created", FALSE, 0)
        ELSE LET st == check_status(exc.status)
             IN  IF st.raised # "none"
                 THEN Outcome(cs, bs, ps, exc, st.raised, "created", FALSE, 0)
                 ELSE IF ~exc.has_errors
                 THEN Outcome(cs, bs, ps, exc, "KeyError", "created", FALSE, 0)
                 ELSE LET ae == check_already_exists(exc.errors, ALREADY_EXIST)
                      IN  IF ae.raised # "none"
                          THEN Outcome(cs, bs, ps, exc, ae.raised, "created", FALSE, 0)
                          ELSE Outcome(cs, bs, ps, exc, "none", "existing", FALSE, 0)

----------------------------------------------------------------------------
(* States and steps.                                                       *)

Writers == {"w1", "w2"}

IdleWriter ==
    [pc |-> "staging", changes |-> <<>>, branch |-> "", head |-> 0,
     head_tree |-> EmptyTree, tree |-> EmptyTree, commit |-> 0]

IdleDriver ==
    [run |-> 1, pc |-> "get_file_content", raised |-> "none",
     content |-> NoBlob, routes |-> <<>>]

NoCall == [op |-> "none", raised |-> "none"]

\* An exception no helper catches ends the calling script: a call is made
\* only while none has raised.
Running == last.raised = "none"

\* A repository whose default branch holds one commit with this tree.
FreshRepo(tree) ==
    /\ commits = <<[parent |-> 0, tree |-> tree]>>
    /\ branches = [b \in BranchNames |-> IF b = DefaultBranch THEN 1 ELSE 0]
    /\ pulls = <<>>
    /\ blobs = {}
    /\ last = NoCall
    /\ writers = [w \in Writers |-> IdleWriter]
    /\ driver = IdleDriver

InitialTree == [EmptyTree EXCEPT ![<<"data", "v1.json">>] = "b1"]

\* The paths the single-file writes go to.
WritePaths == {<<"merchants.json">>}

Init ==
    /\ FreshRepo(InitialTree)
    /\ tags \in [TagNames -> {0, 1}]

\* The state a helper call leaves: the remote's, and the record of the call.
Leaves(o, call) ==
    /\ Running
    /\ Len(o.commits) <= MaxCommits
    /\ commits' = o.commits
    /\ branches' = o.branches
    /\ pulls' = o.pulls
    /\ last' = call
    /\ UNCHANGED <<tags, blobs, writers, driver>>

UpdateFile(file_path, branch, content, inj) ==
    LET o == update_file(commits, branches, pulls, file_path, branch, content, inj)
    IN  Leaves(o, [op |-> "update_file", file_path |-> file_path,
                   branch |-> branch, content |-> content, rej |-> o.rej,
                   raised |-> o.raised, route |-> o.route,
                   fallback |-> o.fallback, ret |-> o.ret])

CreateBranch(branch_name, source_branch, inj) ==
    LET o == create_branch(commits, branches, pulls, branch_name, source_branch, inj)
    IN  Leaves(o, [op |-> "create_branch", branch_name |-> branch_name,
                   source_branch |-> source_branch, rej |-> o.rej,
                   raised |-> o.raised, route |-> o.route,
                   fallback |-> o.fallback, ret |-> o.ret])

\* Without a rejection of the remote's own, a pull request is asked for
\* between two branches that exist.
CreatePullRequest(head, base, inj) ==
    /\ inj.rejected \/ (head # base /\ branches[head] # 0 /\ branches[base] # 0)
    /\ LET o == create_pull_request(commits, branches, pulls, head, base, inj)
       IN  Leaves(o, [op |-> "create_pull_request", head |-> head, base |-> base,
                      rej |-> o.rej, raised |-> o.raised, route |-> o.route,
                      fallback |-> o.fallback, ret |-> o.ret])

GetTagSha(tag) ==
    LET r == get_tag_sha(branches, tags, tag)
    IN  /\ Running
        /\ last' = [op |-> "get_tag_sha", tag |-> tag, raised |-> r.raised,
                    ret |-> r.value]
        /\ UNCHANGED <<commits, branches, tags, pulls, blobs, writers, driver>>

Next ==
    \/ \E p \in WritePaths, b \in BranchNames, c \in Contents :
            UpdateFile(p, b, c, Accepted)
    \/ \E b \in BranchNames, s \in BranchNames : CreateBranch(b, s, Accepted)
    \/ \E h \in BranchNames, b \in BranchNames : CreatePullRequest(h, b, Accepted)
    \/ \E t \in BranchNames \cup TagNames : GetTagSha(t)

Spec == Init /\ [][Next]_vars

\* The same calls with a remote that may also reject a create for a reason
\* of its own.
InitFaults ==
    /\ FreshRepo(InitialTree)
    /\ tags = [t \in TagNames |-> 0]

NextFaults ==
    \/ \E p \in WritePaths, b \in BranchNames, inj \in Injections \cup {Accepted} :
            UpdateFile(p, b, "b1", inj)
    \/ \E b \in BranchNames, s \in BranchNames, inj \in Injections \cup {Accepted} :
            CreateBranch(b, s, inj)
    \/ \E h \in BranchNames, b \in BranchNames, inj \in PullInjections \cup {Accepted} :
            CreatePullRequest(h, b, inj)

SpecFaults == InitFaults /\ [][NextFaults]_vars

\* The classifiers, applied once to any payload.
InitClassify ==
    /\ FreshRepo(InitialTree)
    /\ tags = [t \in TagNames |-> 0]

CheckAlreadyExists(error, expected_pattern) ==
    /\ last = NoCall
    /\ last' = [op |-> "_check_already_exists", error |-> error,
                expected_pattern |-> expected_pattern,
                raised |-> _check_already_exists(error, expected_pattern).raised]
    /\ UNCHANGED <<commits, branches, tags, pulls, blobs, writers, driver>>

ExperimentCheckAlreadyExists(error, expected_pattern) ==
    /\ last = NoCall
    /\ last' = [op |-> "check_already_exists", error |-> error,
                expected_pattern |-> expected_pattern,
                raised |-> check_already_exists(error, expected_pattern).raised]
    /\ UNCHANGED <<commits, branches, tags, pulls, blobs, writers, driver>>

NextClassify ==
    \/ \E e \in Payloads, p \in Patterns : CheckAlreadyExists(e, p)
    \/ \E e \in Payloads, p \in Patterns : ExperimentCheckAlreadyExists(e, p)

SpecClassify == InitClassify /\ [][NextClassify]_vars

\* One read of a repository of any tree.
InitIter ==
    /\ \E t \in Trees : FreshRepo(t)
    /\ tags = [t \in TagNames |-> 0]

GetContents(path, ref) ==
    /\ last = NoCall
    /\ branches[ref] # 0
    /\ LET r == get_contents(HeadTree(commits, branches, ref), path)
       IN  last' = [op |-> "get_contents", path |-> path, ref |-> ref,
                    raised |-> r.raised, result |-> r.value]
    /\ UNCHANGED <<commits, branches, tags, pulls, blobs, writers, driver>>

IterContentFiles(path, ref) ==
    /\ last = NoCall
    /\ branches[ref] # 0
    /\ last' = [op |-> "iter_content_files", path |-> path, ref |-> ref,
                raised |-> "none",
                result |-> iter_content_files(HeadTree(commits, branches, ref), path)]
    /\ UNCHANGED <<commits, branches, tags, pulls, blobs, writers, driver>>

NextIter ==
    \/ \E p \in RootPaths, r \in BranchNames : GetContents(p, r)
    \/ \E p \in RootPaths, r \in BranchNames : IterContentFiles(p, r)

SpecIter == InitIter /\ [][NextIter]_vars

----------------------------------------------------------------------------
(* Properties.                                                             *)

\* `pattern` occurs in `message`: the message is some text, the pattern,
\* and some text.
Occurs(pattern, message) ==
    \E i \in 0..Len(message) : \E j \in i..Len(message) :
        message = SubSeq(message, 1, i) \o pattern \o SubSeq(message, j + 1, Len(message))

\* A string, or a structured error with a message field.
HasText(x) == x.kind = "str" \/ (x.kind = "dict" /\ x.has_message)

\* The payloads the classifier is to accept for a pattern.
Recognised(error, pattern) ==
    \/ HasText(error) /\ Occurs(pattern, error.message)
    \/ /\ error.kind = "list"
       /\ Len(error.items) = 1
       /\ HasText(error.items[1])
       /\ Occurs(pattern, error.items[1].message)

\* C4: _check_already_exists returns silently exactly for a string, a
\* structured error with a message, or a list of one such value, whose
\* message contains the expected substring; a list of two or more entries
\* fails whatever its messages, a single message without the substring
\* re-raises, and {"message": "ref already exists"} is accepted.  The
\* script's own check_already_exists accepts nothing else, and fails and
\* accepts the same named cases.
C4_Classifier ==
    /\ last.op = "check_already_exists" =>
        /\ (last.raised = "none") => Recognised(last.error, last.expected_pattern)
        /\ (last.error.kind = "list" /\ Len(last.error.items) >= 2)
                => last.raised = "reraise"
        /\ (HasText(last.error) /\ ~Occurs(last.expected_pattern, last.error.message))
                => last.raised = "reraise"
        /\ (last.error = Dict(MsgRefExists) /\ last.expected_pattern = ALREADY_EXIST)
                => last.raised = "none"
    /\ last.op = "_check_already_exists" =>
        /\ (last.raised = "none") <=> Recognised(last.error, last.expected_pattern)
        /\ (last.error.kind = "list" /\ Len(last.error.items) >= 2)
                => last.raised = "reraise"
        /\ (HasText(last.error) /\ ~Occurs(last.expected_pattern, last.error.message))
                => last.raised = "reraise"
        /\ (last.error = Dict(MsgRefExists) /\ last.expected_pattern = ALREADY_EXIST)
                => last.raised = "none"

\* A list of two "already exists" errors was classified, and failed.
C4_Witness ==
    /\ last.op = "_check_already_exists"
    /\ last.error = List(<<Dict(MsgRefExists), Dict(MsgRefExists)>>)
    /\ last.expected_pattern = ALREADY_EXIST
    /\ last.raised = "reraise"

Rank(name) == CHOOSE i \in 1..Len(NameOrder) : NameOrder[i] = name

\* p comes before q in a depth-first walk that lists every directory by name.
Before(p, q) ==
    \E k \in 1..Len(p) :
        /\ k <= Len(q)
        /\ SubSeq(p, 1, k - 1) = SubSeq(q, 1, k - 1)
        /\ Rank(p[k]) < Rank(q[k])

C9_RefResolution ==
    last.op = "get_tag_sha" =>
        LET b == BranchSha(branches, last.tag)
            t == IF last.tag \in DOMAIN tags THEN tags[last.tag] ELSE 0
        IN  /\ b # 0 => (last.raised = "none" /\ last.ret = b)
            /\ (b = 0 /\ t # 0) => (last.raised = "none" /\ last.ret = t)
            /\ (b = 0 /\ t = 0) => last.raised = "ValueError"

\* A name that is a branch and a tag of another sha was resolved.
C9_Witness ==
    /\ last.op = "get_tag_sha"
    /\ last.tag = "update"
    /\ branches["update"] # 0
    /\ tags["update"] # 0
    /\ tags["update"] # branches["update"]
    /\ last.ret = branches["update"]


\* C1: update_file on a path that does not exist yet performs a create, and
\* the same call again (same path, same branch) performs an update and
\* returns without raising.
C1_IdempotentWrite ==
    [][(/\ last' # last
        /\ last'.op = "update_file"
        /\ branches[last'.branch] # 0)
       => /\ (\A b \in BranchNames :
                  branches[b] # 0 => HeadTree(commits, branches, b)[last'.file_path] = NoBlob)
              => (last'.raised = "none" /\ last'.route = "create")
          /\ (/\ last.op = "update_file"
              /\ last.route = "create"
              /\ last.file_path = last'.file_path
              /\ last.branch = last'.branch)
              => (last'.raised = "none" /\ last'.route = "update")]_vars

\* C2: whenever update_file returns, the file on the branch it was given
\* holds the supplied content, and no other branch has been modified.
C2_WritesGivenBranch ==
    [][(/\ last' # last
        /\ last'.op = "update_file"
        /\ last'.raised = "none"
        /\ branches[last'.branch] # 0)
       => /\ HeadTree(commits', branches', last'.branch)[last'.file_path] = last'.content
          /\ \A b \in BranchNames \ {last'.branch} : branches'[b] = branches[b]]_vars

\* The pattern each helper hands to the classifier.
PatternOf(op) == IF op = "update_file" THEN SHA_NOT_SUPPLIED ELSE ALREADY_EXIST

\* A rejection that is not the conflict the helper is written to absorb: a
\* status other than 422, or a payload of another shape or message.
Unexpected(op, rej) ==
    \/ rej.status # 422
    \/ op = "create_pull_request" /\ ~rej.has_errors
    \/ op = "create_pull_request" /\ ~Recognised(rej.errors, PatternOf(op))
    \/ op # "create_pull_request" /\ ~Recognised(rej.data, PatternOf(op))

\* C3: an unexpected rejection of update_file, create_branch or
\* create_pull_request reaches the caller as the remote error itself, and
\* no fallback update or lookup is issued.
C3_RejectionReachesCaller ==
    (/\ last.op \in {"update_file", "create_branch", "create_pull_request"}
     /\ last.rej.rejected
     /\ Unexpected(last.op, last.rej))
        => (last.raised = "reraise" /\ ~last.fallback)

\* C5: create_branch for a name that exists returns the existing ref without
\* raising and moves no ref, wherever the source's head is by now.
C5_IdempotentBranch ==
    [][(/\ last' # last
        /\ last'.op = "create_branch"
        /\ branches[last'.branch_name] # 0
        /\ branches[last'.source_branch] # 0)
       => /\ last'.raised = "none"
          /\ last'.route = "existing"
          /\ last'.ret = GitRef(last'.branch_name, branches[last'.branch_name])
          /\ branches' = branches]_vars

\* create_branch found the branch in place while the source's head was
\* elsewhere.
C5_Witness ==
    /\ last.op = "create_branch"
    /\ last.route = "existing"
    /\ last.raised = "none"
    /\ last.branch_name # last.source_branch
    /\ branches[last.source_branch] # last.ret.sha
    /\ branches[last.branch_name] = last.ret.sha

OnePullPerPair(ps) ==
    \A i, j \in 1..Len(ps) :
        (ps[i].head = ps[j].head /\ ps[i].base = ps[j].base) => i = j

\* C6: there is at most one open pull request per head and base, and
\* create_pull_request for a pair that has one returns it without raising:
\* not a new one, and not that of another pair.
C6_IdempotentPull ==
    [][/\ OnePullPerPair(pulls')
       /\ (/\ last' # last
           /\ last'.op = "create_pull_request"
           /\ \E i \in 1..Len(pulls) :
                  pulls[i].head = last'.head /\ pulls[i].base = last'.base)
          => /\ last'.raised = "none"
             /\ last'.route = "existing"
             /\ \E i \in 1..Len(pulls) : pulls[i] = last'.ret
             /\ last'.ret.head = last'.head
             /\ last'.ret.base = last'.base
             /\ pulls' = pulls]_vars

\* With two pull requests open, the second one was asked for again and
\* returned.
C6_Witness ==
    /\ last.op = "create_pull_request"
    /\ last.route = "existing"
    /\ last.raised = "none"
    /\ Len(pulls) = 2
    /\ last.ret = pulls[2]

----------------------------------------------------------------------------
(* The experiment script (experiment.py, __main__), run, and run again on *)
(* the same day against the repository the first run left.                *)

InitDriver ==
    /\ \E t \in Trees : FreshRepo(t)
    /\ tags = [t \in TagNames |-> 0]

\* One statement of the script: the remote state it leaves, and where the
\* script goes (nowhere, if the statement raised).
DriverStep(o, next) ==
    /\ driver.raised = "none"
    /\ Len(o.commits) <= MaxCommits
    /\ commits' = o.commits
    /\ branches' = o.branches
    /\ pulls' = o.pulls
    /\ driver' = IF o.raised # "none"
                 THEN [driver EXCEPT !.raised = o.raised]
                 ELSE [driver EXCEPT !.pc = next,
                                     !.routes = Append(driver.routes, o.route)]
    /\ UNCHANGED <<tags, blobs, last, writers>>

\* get_file_content and random.choices: some new content.
DriverGetFileContent(content) ==
    /\ driver.pc = "get_file_content"
    /\ driver.raised = "none"
    /\ driver' = [driver EXCEPT !.pc = "create_branch", !.content = content]
    /\ UNCHANGED <<commits, branches, tags, pulls, blobs, last, writers>>

DriverCreateBranch ==
    /\ driver.pc = "create_branch"
    /\ DriverStep(experiment_create_branch(commits, branches, pulls,
                                           FEATURE_BRANCH, BASE_BRANCH),
                  "update_file")

DriverUpdateFile ==
    /\ driver.pc = "update_file"
    /\ DriverStep(experiment_update_file(commits, branches, pulls, TARGET_FILE,
                                         FEATURE_BRANCH, driver.content),
                  "create_pull_request")

DriverCreatePullRequest ==
    /\ driver.pc = "create_pull_request"
    /\ DriverStep(experiment_create_pull_request(commits, branches, pulls,
                                                 FEATURE_BRANCH, BASE_BRANCH),
                  "done")

\* The script is started a second time.
DriverRunAgain ==
    /\ driver.pc = "done"
    /\ driver.run = 1
    /\ driver' = [IdleDriver EXCEPT !.run = 2]
    /\ UNCHANGED <<commits, branches, tags, pulls, blobs, last, writers>>

NextDriver ==
    \/ \E c \in Contents : DriverGetFileContent(c)
    \/ DriverCreateBranch
    \/ DriverUpdateFile
    \/ DriverCreatePullRequest
    \/ DriverRunAgain

SpecDriver == InitDriver /\ [][NextDriver]_vars

\* C7: the second run of the scenario does not raise: it takes the
\* branch-exists path, writes the file as an update and takes the
\* pull-request-exists path.
C7_SecondRunSucceeds ==
    driver.run = 2 =>
        /\ driver.raised = "none"
        /\ driver.pc = "done" => driver.routes = <<"existing", "update", "existing">>

----------------------------------------------------------------------------
(* make_change and push_changes.  Each remote call of push_changes is a   *)
(* step of its caller, so that two callers interleave; any of the calls   *)
(* may fail, which ends the push where it is.                             *)

\* The paths push_hello_world stages.
PushPaths == {<<"logos", "hello.txt">>, <<"logos", "world.txt">>}

\* base64.b64encode(content).decode()
b64encode(content) == [base64 |-> content]

\* repo.create_git_blob(data, encoding): the sha of the blob of the decoded
\* content.
RemoteCreateGitBlob(data, encoding) ==
    IF encoding = "base64" THEN data.base64 ELSE data

InputGitTreeElement(path, mode, type, sha) ==
    [path |-> path, mode |-> mode, type |-> type, sha |-> sha]

make_change(path, content) ==
    LET blob == RemoteCreateGitBlob(b64encode(content), "base64")
    IN  InputGitTreeElement(path, "100644", "blob", blob)

RECURSIVE ApplyChanges(_, _, _)
\* The base tree with the changes from the i-th on written over it, in order.
ApplyChanges(base, changes, i) ==
    IF i > Len(changes) THEN base
    ELSE ApplyChanges([base EXCEPT ![changes[i].path] = changes[i].sha],
                      changes, i + 1)

\* A faulty variant of create_git_tree: the tree is made of the changes alone, the
\* base tree is left out.
CreateGitTreeWithoutBase(changes, base_tree) == ApplyChanges(EmptyTree, changes, 1)

\* repo.create_git_tree(changes, head_tree)
create_git_tree(changes, base_tree) == ApplyChanges(base_tree, changes, 1)

\* repo.create_git_commit(message, tree, [head.commit])
create_git_commit(cs, tree, parent) == Append(cs, [parent |-> parent, tree |-> tree])

InitPush ==
    /\ commits \in {<<[parent |-> 0, tree |-> InitialTree]>>,
                    <<[parent |-> 0,
                       tree |-> [InitialTree EXCEPT ![<<"logos", "hello.txt">>] = "b1"]]>>}
    /\ branches \in {[b \in BranchNames |-> IF b = DefaultBranch THEN 1 ELSE 0],
                     [b \in BranchNames |-> 1]}
    /\ tags = [t \in TagNames |-> 0]
    /\ pulls = <<>>
    /\ blobs = {}
    /\ last = NoCall
    /\ writers = [w \in Writers |-> IdleWriter]
    /\ driver = IdleDriver

\* The caller stages one more file: make_change uploads its blob.
MakeChange(w, path, content) ==
    /\ writers[w].pc = "staging"
    /\ Len(writers[w].changes) < MaxChanges
    /\ \A i \in 1..Len(writers[w].changes) : writers[w].changes[i].path # path
    /\ blobs' = blobs \cup {make_change(path, content).sha}
    /\ writers' = [writers EXCEPT
                      ![w].changes = Append(@, make_change(path, content))]
    /\ UNCHANGED <<commits, branches, tags, pulls, last, driver>>

\* head = repo.get_branch(branch).commit; head_tree = repo.get_git_tree(head.sha)
PushReadHead(w, branch) ==
    /\ writers[w].pc = "staging"
    /\ Len(writers[w].changes) > 0
    /\ writers' = [writers EXCEPT ![w] =
            IF branches[branch] = 0
            THEN [@ EXCEPT !.pc = "failed", !.branch = branch]
            ELSE [@ EXCEPT !.pc = "read", !.branch = branch,
                           !.head = branches[branch],
                           !.head_tree = TreeOf(commits, branches[branch])]]
    /\ UNCHANGED <<commits, branches, tags, pulls, blobs, last, driver>>

\* tree = repo.create_git_tree(changes, head_tree)
PushCreateTree(w) ==
    /\ writers[w].pc = "read"
    /\ writers' = [writers EXCEPT
                      ![w].pc = "tree",
                      ![w].tree = create_git_tree(writers[w].changes,
                                                  writers[w].head_tree)]
    /\ UNCHANGED <<commits, branches, tags, pulls, blobs, last, driver>>

\* commit = repo.create_git_commit(message, tree, [head.commit])
PushCreateCommit(w) ==
    /\ writers[w].pc = "tree"
    /\ Len(commits) < MaxCommits
    /\ commits' = create_git_commit(commits, writers[w].tree, writers[w].head)
    /\ writers' = [writers EXCEPT ![w].pc = "commit", ![w].commit = Len(commits')]
    /\ UNCHANGED <<branches, tags, pulls, blobs, last, driver>>

\* ref = repo.get_git_ref('heads/' + branch); ref.edit(sha=commit.sha)
PushEditRef(w) ==
    /\ writers[w].pc = "commit"
    /\ branches' = [branches EXCEPT ![writers[w].branch] = writers[w].commit]
    /\ writers' = [writers EXCEPT ![w].pc = "done"]
    /\ UNCHANGED <<commits, tags, pulls, blobs, last, driver>>

\* The next remote call of the push raises: push_changes ends there.
PushFails(w) ==
    /\ writers[w].pc \in {"read", "tree", "commit"}
    /\ writers' = [writers EXCEPT ![w].pc = "failed"]
    /\ UNCHANGED <<commits, branches, tags, pulls, blobs, last, driver>>

NextPush ==
    \/ \E w \in Writers, p \in PushPaths, c \in Contents : MakeChange(w, p, c)
    \/ \E w \in Writers, b \in BranchNames : PushReadHead(w, b)
    \/ \E w \in Writers : PushCreateTree(w)
    \/ \E w \in Writers : PushCreateCommit(w)
    \/ \E w \in Writers : PushEditRef(w)
    \/ \E w \in Writers : PushFails(w)

SpecPush == InitPush /\ [][NextPush]_vars


\* The staged change at path p, if there is one.
Staged(changes, p) == {i \in 1..Len(changes) : changes[i].path = p}

\* C10: push_changes moves the branch ref last and once: a ref changes only
\* in the step that follows the creation of the tree and of the commit, a
\* push that fails before it leaves every ref where it was, and the ref is
\* moved to the new commit, whose sole parent is the head read in step 1
\* and whose tree is that head's tree with the staged changes over it; with
\* no other writer in between, that parent is the head the ref leaves.
C10_RefMovesLast ==
    [][/\ \A w \in Writers :
            (writers[w].pc = "staging" /\ writers'[w].pc = "read")
                => /\ writers'[w].head = branches[writers'[w].branch]
                   /\ writers'[w].head_tree = commits[writers'[w].head].tree
       /\ \A w \in Writers :
            (writers'[w].pc = "failed" /\ writers[w].pc # "failed")
                => branches' = branches
       /\ branches' # branches =>
            \E w \in Writers :
                LET l == writers[w]
                IN  /\ l.pc = "commit"
                    /\ writers'[w].pc = "done"
                    /\ \A v \in Writers \ {w} : writers'[v] = writers[v]
                    /\ branches' = [branches EXCEPT ![l.branch] = l.commit]
                    /\ l.commit \in 1..Len(commits)
                    /\ l.commit # l.head
                    /\ commits[l.commit].parent = l.head
                    /\ \A p \in Paths :
                          commits[l.commit].tree[p] =
                              IF Staged(l.changes, p) # {}
                              THEN l.changes[CHOOSE i \in Staged(l.changes, p) : TRUE].sha
                              ELSE commits[l.head].tree[p]
                    /\ \A i \in 1..Len(l.changes) : l.changes[i].sha \in blobs
                    /\ branches[l.branch] = l.head
                          => commits[branches'[l.branch]].parent = branches[l.branch]
       /\ \A w \in Writers :
            (writers'[w].pc = "done" /\ writers[w].pc # "done")
                => branches'[writers[w].branch] = writers[w].commit]_vars

\* A push of two changes has returned: one over a file the head had with
\* other content, one at a new path, and a third file inherited.
C10_Witness ==
    \E w \in Writers :
        LET l == writers[w]
        IN  /\ l.pc = "done"
            /\ Len(l.changes) = 2
            /\ branches[l.branch] = l.commit
            /\ commits[l.head].tree[<<"logos", "hello.txt">>] = "b1"
            /\ commits[l.commit].tree[<<"logos", "hello.txt">>] = "b2"
            /\ commits[l.head].tree[<<"logos", "world.txt">>] = NoBlob
            /\ commits[l.commit].tree[<<"logos", "world.txt">>] # NoBlob
            /\ commits[l.commit].tree[<<"data", "v1.json">>] = "b1"
            /\ \A v \in Writers \ {w} : writers[v].pc = "staging"

============================================================================
